---- MODULE Spec2Model ----
(***************************************************************************)
(* A model of the citation tracker: the metrics calculator                 *)
(* (src/src/analytics/metrics.py), the data fetcher orchestrator           *)
(* (src/src/api/fetcher.py) and the paging loop of the Semantic Scholar    *)
(* client (src/src/api/semantic_scholar.py).  The storage layer            *)
(* (src/db/database.py) and                                                *)
(* the configuration (src/core/config.py) are not part of the sources at   *)
(* hand; what the model needs of them follows the specification's          *)
(* description of the storage interface.                                   *)
(***************************************************************************)
EXTENDS Integers, Sequences, FiniteSets, TLC

VARIABLES
    papers,       \* the list db.get_papers_with_latest_citations() returns
    op,           \* the metrics operation called last
    arg,          \* its argument
    result,       \* what it returned or raised
    dbPapers,     \* the papers table, a row's id is its position
    dbCitations,  \* the citations table, in insertion order
    enabled,      \* config.platforms[p].enabled, by position in Platforms
    authorId,     \* config.platforms['semantic_scholar'].author_id
    syncStatus,   \* the sync_status table: the last outcome written per platform
    pc,           \* fetch_all: "idle", "loop", "returned" or "raised"
    idx,          \* fetch_all's position in config.platforms
    results,      \* fetch_all's results dict, entries in insertion order
    attempted,    \* the platforms the running fetch_all has called fetch_platform on
    lastAttempt,  \* the last fetch_platform call: its platform and how it ended
    nCalls,       \* the number of calls of the fetcher made so far
    aid,          \* get_author_papers: author_id or self.author_id
    pageLimit,    \* get_author_papers: its limit argument
    offset,       \* get_author_papers: the offset of the next request
    loopPc,       \* get_author_papers: "idle", "call", "request", "returned", "raised"
    status_code,  \* the status of the last response, 0 before the first
    nPages,       \* the requests answered with a non-empty 200 page so far
    retried       \* the 429 answers so far, counted up to MaxRetries

vars == <<papers, op, arg, result, dbPapers, dbCitations, enabled, authorId,
          syncStatus, pc, idx, results, attempted, lastAttempt, nCalls,
          aid, pageLimit, offset, loopPc, status_code, nPages, retried>>

metricsVars == <<papers, op, arg, result>>
dbVars == <<dbPapers, dbCitations>>
fetchVars == <<enabled, authorId, syncStatus, pc, idx, results, attempted, lastAttempt, nCalls>>
clientVars == <<aid, pageLimit, offset, loopPc, status_code, nPages, retried>>

(***************************************************************************)
(* Python values.  An optional value is None or Some(v); a dict value read *)
(* from a database row is always present and may be None.                  *)
(***************************************************************************)
None == <<>>
Some(v) == <<v>>
IsNone(x) == x = <<>>
Val(x) == x[1]
\* Python truthiness of an optional integer: None and 0 are falsy.
TruthyInt(x) == ~IsNone(x) /\ Val(x) # 0

Max2(a, b) == IF a >= b THEN a ELSE b
Min2(a, b) == IF a <= b THEN a ELSE b

RECURSIVE SumSeq(_)
SumSeq(s) == IF s = <<>> THEN 0 ELSE Head(s) + SumSeq(Tail(s))

\* What a metrics call returns or raises.
Returned(v) == [status |-> "ok", value |-> v]
Raised(e) == [status |-> "raise", value |-> e]

(***************************************************************************)
(* Bounds of the model.                                                    *)
(***************************************************************************)
MaxLen == 4      \* length of a list of citation counts given to calculate_h_index
MaxCount == 4    \* largest citation count in such a list

\* The sequences over S of length at most n.
SeqsUpTo(S, n) == UNION {[1..k -> S] : k \in 0..n}

CountLists == SeqsUpTo(0..MaxCount, MaxLen)

(***************************************************************************)
(* MetricsCalculator.calculate_h_index                                     *)
(***************************************************************************)
\* sorted(xs, reverse=True) on integers: insert each element after the
\* elements that are >= it.
RECURSIVE InsertDesc(_, _)
InsertDesc(sorted, x) ==
    IF sorted = <<>> THEN <<x>>
    ELSE IF Head(sorted) >= x THEN <<Head(sorted)>> \o InsertDesc(Tail(sorted), x)
    ELSE <<x>> \o sorted

RECURSIVE SortedDesc(_)
SortedDesc(s) ==
    IF s = <<>> THEN <<>>
    ELSE InsertDesc(SortedDesc(SubSeq(s, 1, Len(s) - 1)), s[Len(s)])

\* The loop of lines 21-26: i runs from 1, h_index follows i while the i-th
\* value is >= i, and the first smaller value ends the loop.
RECURSIVE HIndexLoop(_, _, _)
HIndexLoop(sorted_citations, i, h_index) ==
    IF i > Len(sorted_citations) THEN h_index
    ELSE IF sorted_citations[i] >= i THEN HIndexLoop(sorted_citations, i + 1, i)
    ELSE h_index

\* The loop with the comparison written strictly.
HIndexStrict(citation_counts) ==
    LET s == SortedDesc(citation_counts)
    IN  Cardinality({i \in 1..Len(s) : \A j \in 1..i : s[j] > j})

calculate_h_index(citation_counts) ==
    IF citation_counts = <<>> THEN 0
    ELSE HIndexLoop(SortedDesc(citation_counts), 1, 0)

(***************************************************************************)
(* Strings whose letters matter (a venue) are sequences of characters, so  *)
(* that str.lower() and the substring test `term in venue` are computed.   *)
(***************************************************************************)
LowerChar(c) ==
    CASE c = "A" -> "a" [] c = "C" -> "c" [] c = "E" -> "e" [] c = "I" -> "i"
      [] c = "M" -> "m" [] c = "N" -> "n" [] c = "P" -> "p" [] c = "S" -> "s"
      [] OTHER -> c

Lower(s) == [i \in 1..Len(s) |-> LowerChar(s[i])]

\* Python's `term in text` on strings.
Contains(text, term) ==
    \E i \in 1..(Len(text) - Len(term) + 1) : SubSeq(text, i, i + Len(term) - 1) = term

HighTierTerms ==
    { <<"n","a","t","u","r","e">>, <<"s","c","i","e","n","c","e">>, <<"c","e","l","l">>,
      <<"l","a","n","c","e","t">>, <<"p","n","a","s">> }
MidTierTerms ==
    { <<"i","e","e","e">>, <<"a","c","m">>, <<"s","p","r","i","n","g","e","r">> }

(***************************************************************************)
(* The stored papers, as db.get_papers_with_latest_citations() returns     *)
(* them: one dict per paper with the keys title, citations, year, doi and  *)
(* venue; year, doi and venue are None where the column is NULL.           *)
(***************************************************************************)
CurrentYear == 2026   \* datetime.now().year

MaxPapers == 2   \* number of stored papers
MaxCit == 2      \* largest latest citation count of a stored paper
MaxLimit == 3    \* largest limit given to get_top_papers
MaxThreshold == 2 \* largest threshold given to identify_low_visibility_papers

Years == {None, Some(0), Some(CurrentYear - 3), Some(CurrentYear - 1), Some(CurrentYear)}
Venues == {None, Some(<<"C","e","l","l">>), Some(<<"A","C","M">>)}
Dois == {None}

PaperDomain ==
    [title : {"t"}, citations : 0..MaxCit, year : Years, doi : Dois, venue : Venues]

PaperLists == SeqsUpTo(PaperDomain, MaxPapers)
Limits == (0 - 1)..MaxLimit
Thresholds == 0..MaxThreshold

CitationsOf(ps) == [i \in 1..Len(ps) |-> ps[i].citations]

(***************************************************************************)
(* MetricsCalculator.get_summary_stats                                     *)
(***************************************************************************)
\* A quotient of integers (Python's true division), kept as a fraction.
Fraction(n, d) == [num |-> n, den |-> d]

SummaryOf(ps, avg) ==
    [total_papers |-> Len(ps),
     total_citations |-> SumSeq(CitationsOf(ps)),
     h_index |-> calculate_h_index(CitationsOf(ps)),
     avg_citations |-> avg,
     papers_change |-> 0, citations_change |-> 0, h_index_change |-> 0]

\* The division of line 39 without its guard.
SummaryUnguarded(ps) ==
    IF Len(ps) = 0 THEN Raised("ZeroDivisionError")
    ELSE Returned(SummaryOf(ps, Fraction(SumSeq(CitationsOf(ps)), Len(ps))))

get_summary_stats(ps) ==
    LET total_papers == Len(ps)
        total_citations == SumSeq(CitationsOf(ps))
        avg_citations == IF total_papers > 0 THEN Fraction(total_citations, total_papers)
                         ELSE Fraction(0, 1)
    IN  Returned(SummaryOf(ps, avg_citations))

(***************************************************************************)
(* MetricsCalculator.get_top_papers                                        *)
(***************************************************************************)
\* sorted(papers, key=citations, reverse=True): stable, so papers with equal
\* counts keep their order.
RECURSIVE InsertByCitations(_, _)
InsertByCitations(sorted, p) ==
    IF sorted = <<>> THEN <<p>>
    ELSE IF Head(sorted).citations >= p.citations
         THEN <<Head(sorted)>> \o InsertByCitations(Tail(sorted), p)
    ELSE <<p>> \o sorted

RECURSIVE SortByCitations(_)
SortByCitations(ps) ==
    IF ps = <<>> THEN <<>>
    ELSE InsertByCitations(SortByCitations(SubSeq(ps, 1, Len(ps) - 1)), ps[Len(ps)])

\* Python's s[:limit]: a negative limit counts from the end.
SliceTo(s, limit) ==
    IF limit >= 0 THEN SubSeq(s, 1, Min2(limit, Len(s)))
    ELSE SubSeq(s, 1, Max2(Len(s) + limit, 0))

TopEntry(p) ==
    [title |-> p.title, citations |-> p.citations, year |-> p.year,
     doi |-> p.doi, venue |-> p.venue]

\* The sort without the truncation.
TopPapersUncut(ps, limit) ==
    LET top == SortByCitations(ps)
    IN  Returned([i \in 1..Len(top) |-> TopEntry(top[i])])

get_top_papers(ps, limit) ==
    LET top_papers == SliceTo(SortByCitations(ps), limit)
    IN  Returned([i \in 1..Len(top_papers) |-> TopEntry(top_papers[i])])

(***************************************************************************)
(* MetricsCalculator.get_citation_trends                                   *)
(***************************************************************************)
\* One turn of the loop of lines 138-144 on the dict by_year.
TrendsStep(by_year, paper) ==
    LET year == paper.year
    IN  IF TruthyInt(year)
        THEN LET y == Val(year)
                 old == IF y \in DOMAIN by_year THEN by_year[y]
                        ELSE [papers |-> 0, citations |-> 0]
                 new == [papers |-> old.papers + 1,
                         citations |-> old.citations + paper.citations]
             IN  [k \in (DOMAIN by_year) \cup {y} |-> IF k = y THEN new ELSE by_year[k]]
        ELSE by_year

RECURSIVE TrendsLoop(_, _)
TrendsLoop(ps, by_year) ==
    IF ps = <<>> THEN by_year
    ELSE TrendsLoop(Tail(ps), TrendsStep(by_year, Head(ps)))

EmptyDict == [k \in {} |-> 0]

TrendsOf(ps, by_year) ==
    Returned([by_year |-> by_year,
              total_papers |-> Len(ps),
              total_citations |-> SumSeq(CitationsOf(ps))])

\* The grouping with the first paper of a year overwriting the year's entry
\* instead of adding to it.
RECURSIVE TrendsLoopOverwrite(_, _)
TrendsLoopOverwrite(ps, by_year) ==
    IF ps = <<>> THEN by_year
    ELSE LET p == Head(ps)
         IN  TrendsLoopOverwrite(Tail(ps),
                 IF TruthyInt(p.year)
                 THEN [k \in (DOMAIN by_year) \cup {Val(p.year)} |->
                          IF k = Val(p.year) THEN [papers |-> 1, citations |-> p.citations]
                          ELSE by_year[k]]
                 ELSE by_year)

TrendsOverwrite(ps) == TrendsOf(ps, TrendsLoopOverwrite(ps, EmptyDict))

get_citation_trends(ps) == TrendsOf(ps, TrendsLoop(ps, EmptyDict))

(***************************************************************************)
(* MetricsCalculator._estimate_potential                                   *)
(* The score is a float that is a multiple of 0.5; the model keeps twice   *)
(* the score, an integer.                                                  *)
(***************************************************************************)
VenueScore(venue) ==
    IF \E term \in HighTierTerms : Contains(venue, term) THEN 20
    ELSE IF \E term \in MidTierTerms : Contains(venue, term) THEN 10
    ELSE 0

RecencyScore(paper) ==
    IF TruthyInt(paper.year)
    THEN LET age == CurrentYear - Val(paper.year)
         IN  IF age < 3 THEN (3 - age) * 4 ELSE 0
    ELSE 0

\* The citation bonus without its citations > 0 guard.
CitationUnguarded(paper) == Min2(paper.citations, 10)

CitationScore(paper) ==
    IF paper.citations > 0 THEN Min2(paper.citations, 10) ELSE 0

\* paper.get('venue', '') is the stored value when the key is there, so a
\* NULL venue gives None, and None.lower() raises AttributeError.
estimate_potential(paper) ==
    IF IsNone(paper.venue) THEN Raised("AttributeError")
    ELSE Returned(VenueScore(Lower(Val(paper.venue)))
                  + RecencyScore(paper) + CitationScore(paper))

(***************************************************************************)
(* MetricsCalculator.identify_low_visibility_papers                        *)
(***************************************************************************)
RECURSIVE InsertByPotential(_, _)
InsertByPotential(sorted, e) ==
    IF sorted = <<>> THEN <<e>>
    ELSE IF Head(sorted).potential >= e.potential
         THEN <<Head(sorted)>> \o InsertByPotential(Tail(sorted), e)
    ELSE <<e>> \o sorted

RECURSIVE SortByPotential(_)
SortByPotential(es) ==
    IF es = <<>> THEN <<>>
    ELSE InsertByPotential(SortByPotential(SubSeq(es, 1, Len(es) - 1)), es[Len(es)])

LowVisEntry(paper, age, potential) ==
    [title |-> paper.title, year |-> Val(paper.year), citations |-> paper.citations,
     age |-> age, doi |-> paper.doi, potential |-> potential]

\* The loop of lines 158-170: the list built so far, or the exception that
\* ended the loop.
RECURSIVE LowVisLoop(_, _, _)
LowVisLoop(ps, threshold, low_visibility) ==
    IF ps = <<>> THEN Returned(low_visibility)
    ELSE LET paper == Head(ps)
             age == CurrentYear - Val(paper.year)
         IN  IF TruthyInt(paper.year) /\ age >= 1 /\ paper.citations < threshold
             THEN LET potential == estimate_potential(paper)
                  IN  IF potential.status = "raise" THEN potential
                      ELSE LowVisLoop(Tail(ps), threshold,
                               Append(low_visibility,
                                      LowVisEntry(paper, age, potential.value)))
             ELSE LowVisLoop(Tail(ps), threshold, low_visibility)

\* The loop with papers of the current year let in (age >= 0).
RECURSIVE LowVisLoopAnyAge(_, _, _)
LowVisLoopAnyAge(ps, threshold, low_visibility) ==
    IF ps = <<>> THEN Returned(low_visibility)
    ELSE LET paper == Head(ps)
             age == CurrentYear - Val(paper.year)
         IN  IF TruthyInt(paper.year) /\ age >= 0 /\ paper.citations < threshold
             THEN LET potential == estimate_potential(paper)
                  IN  IF potential.status = "raise" THEN potential
                      ELSE LowVisLoopAnyAge(Tail(ps), threshold,
                               Append(low_visibility,
                                      LowVisEntry(paper, age, potential.value)))
             ELSE LowVisLoopAnyAge(Tail(ps), threshold, low_visibility)

LowVisAnyAge(ps, threshold) ==
    LET looped == LowVisLoopAnyAge(ps, threshold, <<>>)
    IN  IF looped.status = "raise" THEN looped
        ELSE Returned(SortByPotential(looped.value))

identify_low_visibility_papers(ps, threshold) ==
    LET looped == LowVisLoop(ps, threshold, <<>>)
    IN  IF looped.status = "raise" THEN looped
        ELSE Returned(SortByPotential(looped.value))

(***************************************************************************)
(* The calls of the metrics calculator.  Each is a query: it reads the     *)
(* store and leaves it as it is, so a call made after other calls sees     *)
(* what a first call sees, and the model makes one call from each store.   *)
(***************************************************************************)
CalculateHIndex ==
    /\ op = "none"
    /\ op' = "calculate_h_index"
    /\ result' = Returned(calculate_h_index(arg))
    /\ UNCHANGED <<arg, papers, dbVars, fetchVars, clientVars>>

GetSummaryStats ==
    /\ op = "none"
    /\ op' = "get_summary_stats"
    /\ arg' = None
    /\ result' = get_summary_stats(papers)
    /\ UNCHANGED <<papers, dbVars, fetchVars, clientVars>>

GetTopPapers ==
    /\ op = "none"
    /\ \E limit \in Limits :
          /\ op' = "get_top_papers"
          /\ arg' = limit
          /\ result' = get_top_papers(papers, limit)
    /\ UNCHANGED <<papers, dbVars, fetchVars, clientVars>>

GetCitationTrends ==
    /\ op = "none"
    /\ op' = "get_citation_trends"
    /\ arg' = None
    /\ result' = get_citation_trends(papers)
    /\ UNCHANGED <<papers, dbVars, fetchVars, clientVars>>

IdentifyLowVisibilityPapers ==
    /\ op = "none"
    /\ \E threshold \in Thresholds :
          /\ op' = "identify_low_visibility_papers"
          /\ arg' = threshold
          /\ result' = identify_low_visibility_papers(papers, threshold)
    /\ UNCHANGED <<papers, dbVars, fetchVars, clientVars>>

(***************************************************************************)
(* Specifications.  SpecH: calculate_h_index on lists of counts.           *)
(* SpecMetrics: the queries over a set of stored papers.                   *)
(***************************************************************************)
NoCall == Returned(None)

\* config.platforms in its order; the last one is configured but has no
\* branch in fetch_platform.
Platforms == <<"orcid", "arxiv", "semantic_scholar", "google_scholar", "scopus">>

MetricsIdle == op = "none" /\ arg = None /\ result = NoCall
DbEmpty == dbPapers = <<>> /\ dbCitations = <<>>
\* No call of SemanticScholarClient.get_author_papers is under way.
ClientIdle ==
    /\ aid = None /\ pageLimit = 0 /\ offset = 0 /\ loopPc = "idle"
    /\ status_code = 0 /\ nPages = 0 /\ retried = 0

FetchIdle ==
    /\ enabled = [i \in 1..Len(Platforms) |-> FALSE]
    /\ authorId = None
    /\ syncStatus = [i \in 1..Len(Platforms) |-> None]
    /\ pc = "idle"
    /\ idx = 0
    /\ results = <<>>
    /\ attempted = <<>>
    /\ lastAttempt = None
    /\ nCalls = 0

InitH ==
    /\ papers = <<>>
    /\ op = "none" /\ arg \in CountLists /\ result = NoCall
    /\ DbEmpty /\ FetchIdle /\ ClientIdle
NextH == CalculateHIndex
SpecH == InitH /\ [][NextH]_vars

InitMetrics == papers \in PaperLists /\ MetricsIdle /\ DbEmpty /\ FetchIdle /\ ClientIdle
NextMetrics ==
    \/ GetSummaryStats
    \/ GetTopPapers
    \/ GetCitationTrends
    \/ IdentifyLowVisibilityPapers
SpecMetrics == InitMetrics /\ [][NextMetrics]_vars

(***************************************************************************)
(* Properties of the metrics calculator.                                   *)
(***************************************************************************)
\* The h-index by its definition: the largest h such that at least h of the
\* counts are >= h.
HIndexByDefinition(counts) ==
    LET ok == {h \in 0..Len(counts) :
                  Cardinality({i \in 1..Len(counts) : counts[i] >= h}) >= h}
    IN  CHOOSE h \in ok : \A g \in ok : g <= h

\* C1: for every list of non-negative counts calculate_h_index returns the
\* largest h such that at least h of the counts are >= h, and 0 for the
\* empty list.
C1_HIndexIsLargestH ==
    op = "calculate_h_index" =>
        /\ result = Returned(HIndexByDefinition(arg))
        /\ (arg = <<>> => result = Returned(0))

\* C1's case: an unsorted list of four counts whose h-index is 3.
C1_Witness ==
    /\ op = "calculate_h_index"
    /\ arg = <<1, 3, 4, 3>>
    /\ result = Returned(3)

MetricsOps ==
    {"get_summary_stats", "get_top_papers", "get_citation_trends",
     "identify_low_visibility_papers"}

\* C7: with papers whose venue, year or DOI is missing, each of
\* get_summary_stats, get_top_papers, get_citation_trends and
\* identify_low_visibility_papers returns a result rather than failing.
C7_NullFieldsNeverFail ==
    op \in MetricsOps => result.status = "ok"

\* C8: on an empty paper set get_summary_stats returns zeros (its average
\* too, no division by zero), get_top_papers and
\* identify_low_visibility_papers return empty lists, and
\* get_citation_trends returns an empty by_year with zero totals.
C8_EmptySetDegrades ==
    (papers = <<>> /\ op \in MetricsOps) =>
        /\ result.status = "ok"
        /\ op = "get_summary_stats" =>
              /\ result.value.total_papers = 0
              /\ result.value.total_citations = 0
              /\ result.value.h_index = 0
              /\ result.value.avg_citations.num = 0
        /\ op = "get_top_papers" => result.value = <<>>
        /\ op = "identify_low_visibility_papers" => result.value = <<>>
        /\ op = "get_citation_trends" =>
              /\ DOMAIN result.value.by_year = {}
              /\ result.value.total_papers = 0
              /\ result.value.total_citations = 0

\* C8's case: get_summary_stats has returned on an empty paper set.
C8_Witness ==
    /\ papers = <<>>
    /\ op = "get_summary_stats"
    /\ result.status = "ok"
    /\ result.value.total_papers = 0

PapersOfYear(y) == SelectSeq(papers, LAMBDA p : p.year = Some(y))

ByYearCounts(by_year) ==
    \A y \in DOMAIN by_year :
        /\ by_year[y].papers = Len(PapersOfYear(y))
        /\ by_year[y].citations = SumSeq(CitationsOf(PapersOfYear(y)))

\* The years stored with the papers, and those of them that are not 0.
StoredYears == {Val(papers[i].year) : i \in {j \in 1..Len(papers) : ~IsNone(papers[j].year)}}
NonZeroStoredYears == StoredYears \ {0}

\* C9 as stated: the keys of by_year are exactly the publication years that
\* occur among the papers, and each year's entry counts that year's papers
\* and sums their citations.
C9_KeysAreAllStoredYears ==
    op = "get_citation_trends" =>
        /\ DOMAIN result.value.by_year = StoredYears
        /\ ByYearCounts(result.value.by_year)

\* C9, amended: the keys of by_year are exactly the non-zero publication
\* years that occur among the papers (a year of 0 is skipped like a missing
\* year), and each year's entry counts that year's papers and sums their
\* citations.
C9_KeysAreNonZeroStoredYears ==
    op = "get_citation_trends" =>
        /\ DOMAIN result.value.by_year = NonZeroStoredYears
        /\ ByYearCounts(result.value.by_year)

\* C9's case: two cited papers of one year have been grouped.
C9_Witness ==
    /\ op = "get_citation_trends"
    /\ Len(papers) = 2
    /\ papers[1].year = papers[2].year
    /\ papers[1].citations > 0 /\ papers[2].citations > 0
    /\ \E y \in DOMAIN result.value.by_year : result.value.by_year[y].papers = 2

\* C10 as stated: for every value of limit get_top_papers(limit) returns at
\* most limit entries.
C10_AtMostLimitForEveryLimit ==
    op = "get_top_papers" => Len(result.value) <= arg

\* C10, amended: for every limit >= 0 get_top_papers(limit) returns at most
\* limit entries.
C10_AtMostLimitForNonNegativeLimit ==
    (op = "get_top_papers" /\ arg >= 0) => Len(result.value) <= arg

\* C10's case: two stored papers, cut to one.
C10_Witness ==
    /\ op = "get_top_papers"
    /\ arg = 1
    /\ Len(papers) = 2
    /\ Len(result.value) = 1

(***************************************************************************)
(* The store get_paper_stats reads.  A row of the papers table has the     *)
(* columns title, doi, arxiv_id, year and venue, and its id is its         *)
(* position.  A row of the citations table has paper_id, platform,         *)
(* citation_count, h_index and its timestamp, kept as days_ago: the whole  *)
(* days between the timestamp and now, (now - record_date).days.  Rows are *)
(* inserted with the current time, so the table is ordered oldest first.   *)
(***************************************************************************)
MaxRows == 1      \* rows of the papers table
MaxRecords == 2   \* rows of the citations table

Identifiers == {"A", "B", "C"}
PaperRows ==
    [title : {"t"}, doi : {None, Some("A")}, arxiv_id : {None, Some("B")},
     year : {None}, venue : {None}]
PaperTables == SeqsUpTo(PaperRows, MaxRows)

DaysAgo == {7, 30, 364, 400}
CitationRows(n) ==
    [paper_id : 1..n, platform : {"semantic_scholar"}, citation_count : 0..MaxCit,
     h_index : {None}, days_ago : DaysAgo]
OldestFirst(table) ==
    \A i \in 1..(Len(table) - 1) : table[i].days_ago >= table[i + 1].days_ago
CitationTables(n) == {t \in SeqsUpTo(CitationRows(n), MaxRecords) : OldestFirst(t)}

\* db.get_citation_history(paper_id, days): the paper's records of the last
\* `days` days.
get_citation_history(citations, paper_id, days) ==
    SelectSeq(citations, LAMBDA r : r.paper_id = paper_id /\ r.days_ago <= days)

(***************************************************************************)
(* MetricsCalculator.get_paper_stats                                       *)
(***************************************************************************)
\* SELECT * FROM papers WHERE doi = ? OR arxiv_id = ?, then fetchone(): the
\* id of the first matching row, 0 when no row matches.  A NULL column
\* equals no identifier.
Matches(row, identifier) == row.doi = Some(identifier) \/ row.arxiv_id = Some(identifier)

\* The query with its second condition left out.
FindPaperByDoi(table, identifier) ==
    LET hits == {i \in 1..Len(table) : table[i].doi = Some(identifier)}
    IN  IF hits = {} THEN 0 ELSE CHOOSE i \in hits : \A j \in hits : i <= j

FindPaper(table, identifier) ==
    LET hits == {i \in 1..Len(table) : Matches(table[i], identifier)}
    IN  IF hits = {} THEN 0 ELSE CHOOSE i \in hits : \A j \in hits : i <= j

\* The loop of lines 101-110 for one horizon: the largest count among the
\* records at most `horizon` days old, starting from 0.
RECURSIVE WindowMax(_, _, _)
WindowMax(history, horizon, best) ==
    IF history = <<>> THEN best
    ELSE LET record == Head(history)
         IN  WindowMax(Tail(history), horizon,
                       IF record.days_ago <= horizon
                       THEN Max2(best, record.citation_count) ELSE best)

\* SELECT MAX(citation_count) FROM citations WHERE paper_id = ?: None when
\* the paper has no record.
MaxCitationCount(citations, paper_id) ==
    LET counts == {citations[i].citation_count :
                      i \in {j \in 1..Len(citations) : citations[j].paper_id = paper_id}}
    IN  IF counts = {} THEN None
        ELSE Some(CHOOSE c \in counts : \A d \in counts : d <= c)

\* The count of the paper's newest record in place of the largest count.
NewestCitationCount(citations, paper_id) ==
    LET own == SelectSeq(citations, LAMBDA r : r.paper_id = paper_id)
    IN  IF own = <<>> THEN 0 ELSE own[Len(own)].citation_count

\* Lines 112-118: the MAX, or 0 when it is NULL or 0.
CurrentCitations(citations, paper_id) ==
    LET latest == MaxCitationCount(citations, paper_id)
    IN  IF TruthyInt(latest) THEN Val(latest) ELSE 0

\* Lines 127-129: current - window if window else 0.
Growth(current_citations, window) ==
    IF window # 0 THEN current_citations - window ELSE 0

NotFound(identifier) == Raised(<<"Paper not found", identifier>>)

get_paper_stats(table, citations, identifier) ==
    LET paper_id == FindPaper(table, identifier)
    IN  IF paper_id = 0 THEN NotFound(identifier)
        ELSE LET paper == table[paper_id]
                 history == get_citation_history(citations, paper_id, 365)
                 citations_7d == WindowMax(history, 7, 0)
                 citations_30d == WindowMax(history, 30, 0)
                 citations_1y == WindowMax(history, 365, 0)
                 current_citations == CurrentCitations(citations, paper_id)
             IN  Returned([title |-> paper.title, doi |-> paper.doi,
                           arxiv_id |-> paper.arxiv_id, year |-> paper.year,
                           venue |-> paper.venue,
                           citations |-> current_citations,
                           citations_7d |-> Growth(current_citations, citations_7d),
                           citations_30d |-> Growth(current_citations, citations_30d),
                           citations_1y |-> Growth(current_citations, citations_1y)])

GetPaperStats ==
    /\ op = "none"
    /\ \E identifier \in Identifiers :
          /\ op' = "get_paper_stats"
          /\ arg' = identifier
          /\ result' = get_paper_stats(dbPapers, dbCitations, identifier)
    /\ UNCHANGED <<papers, dbVars, fetchVars, clientVars>>

(***************************************************************************)
(* SpecPaper: get_paper_stats over a store of papers and citation records. *)
(***************************************************************************)
InitPaper ==
    /\ papers = <<>>
    /\ MetricsIdle
    /\ dbPapers \in PaperTables
    /\ dbCitations \in CitationTables(Len(dbPapers))
    /\ FetchIdle /\ ClientIdle
NextPaper == GetPaperStats
SpecPaper == InitPaper /\ [][NextPaper]_vars

\* C2: get_paper_stats on an identifier that is neither the DOI nor the
\* arXiv ID of a stored paper fails with not-found and returns no
\* statistics; on an identifier that is the DOI or the arXiv ID of a stored
\* paper it does not fail with not-found.
C2_NotFoundIffUnknown ==
    op = "get_paper_stats" =>
        LET known == \E i \in 1..Len(dbPapers) :
                        \/ dbPapers[i].doi = Some(arg)
                        \/ dbPapers[i].arxiv_id = Some(arg)
        IN  /\ ~known => result = NotFound(arg)
            /\ known => result.status = "ok"

\* C2's case: a paper is stored and the identifier asked for is not its.
C2_Witness ==
    /\ op = "get_paper_stats"
    /\ Len(dbPapers) = 1
    /\ dbPapers[1].doi = Some("A")
    /\ arg = "C"
    /\ result = NotFound("C")

\* C3: each of citations_7d, citations_30d and citations_1y that
\* get_paper_stats returns is >= 0, whatever the citation history.
C3_GrowthNeverNegative ==
    (op = "get_paper_stats" /\ result.status = "ok") =>
        /\ result.value.citations_7d >= 0
        /\ result.value.citations_30d >= 0
        /\ result.value.citations_1y >= 0

\* C3's case: the paper's count went down from 2 to 1 in the last 30 days.
C3_Witness ==
    /\ op = "get_paper_stats"
    /\ result.status = "ok"
    /\ Len(dbCitations) = 2
    /\ dbCitations[1].citation_count = 2 /\ dbCitations[1].days_ago = 30
    /\ dbCitations[2].citation_count = 1 /\ dbCitations[2].days_ago = 7
    /\ result.value.citations_7d > 0

(***************************************************************************)
(* The data fetcher.  What the platform clients answer is the fetcher's    *)
(* input: a client call raises (ok = FALSE) or returns a list of items.    *)
(***************************************************************************)
MaxBatch == 1   \* items in one answer of a platform client
MaxCalls == 2   \* calls of fetch_platform and fetch_all in one run
MaxLog == 3     \* rows of the citations table the fetches fill

\* Python truthiness of an optional string: None and '' are falsy.
TruthyStr(x) == ~IsNone(x) /\ Val(x) # ""

\* A work or paper as a client returns it: its title and, from Semantic
\* Scholar, its citation count (None where the API gave null).
Works == [title : {None, Some("p1")}, citations : {None}]
ScholarPapers == [title : {None, Some("p1")}, citations : {None, Some(1)}]
\* A publication of the Google Scholar author: scholarly.fill(pub) raises
\* (ok = FALSE) or gives its title and num_citations.
GooglePubs == [ok : BOOLEAN, title : {"p1"}, citations : {1}]

NoAnswer == [ok |-> FALSE, found |-> None, items |-> <<>>]

Answers(items) ==
    {NoAnswer} \cup [ok : {TRUE}, found : {None}, items : SeqsUpTo(items, MaxBatch)]

\* For Semantic Scholar, found is what search_author returns; it is asked
\* only while no author_id is configured.
ScholarAnswers(author_id) ==
    LET founds == IF IsNone(author_id) THEN {None, Some("a1")} ELSE {None}
    IN  {[ok |-> FALSE, found |-> f, items |-> <<>>] : f \in founds}
            \cup [ok : {TRUE}, found : founds, items : SeqsUpTo(ScholarPapers, MaxBatch)]

AnswersOf(platform, author_id) ==
    CASE platform = "orcid" -> Answers(Works)
      [] platform = "arxiv" -> Answers(Works)
      [] platform = "semantic_scholar" -> ScholarAnswers(author_id)
      [] platform = "google_scholar" -> Answers(GooglePubs)
      [] OTHER -> {NoAnswer}

\* The answers a call of fetch_platform can get: none is asked for when the
\* platform is not enabled, and the answers of the platforms that carry
\* citation counts leave the citations table within its bound.
AnswersWithin(platform, is_enabled, author_id, citations) ==
    IF ~is_enabled THEN {NoAnswer}
    ELSE IF platform \in {"semantic_scholar", "google_scholar"}
         THEN {a \in AnswersOf(platform, author_id) :
                  Len(citations) + Len(a.items) <= MaxLog}
    ELSE AnswersOf(platform, author_id)

PlatformIndex(platform) == CHOOSE i \in 1..Len(Platforms) : Platforms[i] = platform

(***************************************************************************)
(* The storage calls the fetcher makes.                                    *)
(***************************************************************************)
\* db.add_paper: the id of the stored paper of that title, inserted if new.
add_paper(table, title) ==
    LET same == {i \in 1..Len(table) : table[i].title = title}
    IN  IF same # {} THEN [table |-> table, id |-> CHOOSE i \in same : TRUE]
        ELSE [table |-> Append(table, [title |-> title, doi |-> None,
                                       arxiv_id |-> None, year |-> None,
                                       venue |-> None]),
              id |-> Len(table) + 1]

\* db.add_citation_record: one more row, stamped with the current time.
add_citation_record(citations, paper_id, platform, citation_count, h_index) ==
    Append(citations, [paper_id |-> paper_id, platform |-> platform,
                       citation_count |-> citation_count, h_index |-> h_index,
                       days_ago |-> 0])

\* db.update_sync_status: the platform's row is overwritten.
update_sync_status(status, platform, outcome, message) ==
    [status EXCEPT ![PlatformIndex(platform)] =
        Some([status |-> outcome, message |-> message])]

\* The store as a fetch sees and leaves it.
Store(ps, cs, ss) == [papers |-> ps, citations |-> cs, status |-> ss]
Fetched(store, author_id, outcome) ==
    [store |-> store, author_id |-> author_id, outcome |-> outcome]

(***************************************************************************)
(* DataFetcher._fetch_orcid and DataFetcher._fetch_arxiv                   *)
(***************************************************************************)
\* The loops of lines 53-62 and 84-95: every item with a title is stored.
RECURSIVE AddTitled(_, _, _)
AddTitled(table, items, papers_count) ==
    IF items = <<>> THEN [table |-> table, papers_count |-> papers_count]
    ELSE IF TruthyStr(Head(items).title)
         THEN AddTitled(add_paper(table, Val(Head(items).title)).table,
                        Tail(items), papers_count + 1)
    ELSE AddTitled(table, Tail(items), papers_count)

fetch_orcid(store, author_id, answer) ==
    IF ~answer.ok THEN Fetched(store, author_id, Raised("ORCID API error"))
    ELSE LET added == AddTitled(store.papers, answer.items, 0)
         IN  Fetched(Store(added.table, store.citations,
                           update_sync_status(store.status, "orcid", "success", None)),
                     author_id,
                     Returned([platform |-> "orcid", papers |-> added.papers_count,
                               citations |-> 0]))

fetch_arxiv(store, author_id, answer) ==
    IF ~answer.ok THEN Fetched(store, author_id, Raised("arXiv search failed"))
    ELSE LET added == AddTitled(store.papers, answer.items, 0)
         IN  Fetched(Store(added.table, store.citations,
                           update_sync_status(store.status, "arxiv", "success", None)),
                     author_id,
                     Returned([platform |-> "arxiv", papers |-> added.papers_count,
                               citations |-> 0]))

(***************************************************************************)
(* DataFetcher._fetch_semantic_scholar                                     *)
(***************************************************************************)
\* The citation count of a fetched paper written over the pair's earlier
\* records instead of after them.
StoreCitationInPlace(citations, paper_id, platform, citation_count, h_index) ==
    add_citation_record(
        SelectSeq(citations, LAMBDA r : ~(r.paper_id = paper_id /\ r.platform = platform)),
        paper_id, platform, citation_count, h_index)

\* The calls of lines 146-150 and 200-205.
StoreCitation(citations, paper_id, platform, citation_count, h_index) ==
    add_citation_record(citations, paper_id, platform, citation_count, h_index)

\* The loop of lines 129-152 and what follows it.  A paper whose citation
\* count is None ends the fetch with a TypeError at line 143, after its
\* add_paper and before its citation record.
RECURSIVE ScholarLoop(_, _, _, _, _)
ScholarLoop(store, author_id, items, papers_count, total_citations) ==
    IF items = <<>>
    THEN Fetched(Store(store.papers, store.citations,
                       update_sync_status(store.status, "semantic_scholar", "success", None)),
                 author_id,
                 Returned([platform |-> "semantic_scholar", papers |-> papers_count,
                           citations |-> total_citations]))
    ELSE LET paper == Head(items)
         IN  IF ~TruthyStr(paper.title)
             THEN ScholarLoop(store, author_id, Tail(items), papers_count, total_citations)
             ELSE LET added == add_paper(store.papers, Val(paper.title))
                  IN  IF IsNone(paper.citations)
                      THEN Fetched(Store(added.table, store.citations, store.status),
                                   author_id, Raised("TypeError"))
                      ELSE ScholarLoop(
                               Store(added.table,
                                     StoreCitation(store.citations, added.id,
                                                   "semantic_scholar",
                                                   Val(paper.citations), None),
                                     store.status),
                               author_id, Tail(items), papers_count + 1,
                               total_citations + Val(paper.citations))

fetch_semantic_scholar(store, author_id, answer) ==
    IF IsNone(author_id) /\ IsNone(answer.found)
    THEN Fetched(store, author_id, Raised("Could not find author on Semantic Scholar"))
    ELSE LET configured == IF IsNone(author_id) THEN answer.found ELSE author_id
         IN  IF ~answer.ok
             THEN Fetched(store, configured, Raised("Semantic Scholar request failed"))
             ELSE ScholarLoop(store, configured, answer.items, 0, 0)

(***************************************************************************)
(* DataFetcher._fetch_google_scholar                                       *)
(***************************************************************************)
GoogleFailed(store, author_id, message) ==
    Fetched(Store(store.papers, store.citations,
                  update_sync_status(store.status, "google_scholar", "error",
                                     Some(message))),
            author_id, Raised(<<"Google Scholar fetch failed", message>>))

\* The loop of lines 187-207 and what follows it, inside the try block.
RECURSIVE GoogleLoop(_, _, _, _)
GoogleLoop(store, author_id, pubs, papers_count) ==
    IF pubs = <<>>
    THEN Fetched(Store(store.papers, store.citations,
                       update_sync_status(store.status, "google_scholar", "success", None)),
                 author_id,
                 Returned([platform |-> "google_scholar", papers |-> papers_count,
                           citations |-> 1, h_index |-> 1]))
    ELSE LET pub == Head(pubs)
         IN  IF ~pub.ok THEN GoogleFailed(store, author_id, "fill failed")
             ELSE LET added == add_paper(store.papers, pub.title)
                  IN  GoogleLoop(Store(added.table,
                                       StoreCitation(store.citations, added.id,
                                                     "google_scholar", pub.citations,
                                                     Some(1)),
                                       store.status),
                                 author_id, Tail(pubs), papers_count + 1)

fetch_google_scholar(store, author_id, answer) ==
    IF ~answer.ok THEN GoogleFailed(store, author_id, "Author not found on Google Scholar")
    ELSE GoogleLoop(store, author_id, answer.items, 0)

(***************************************************************************)
(* DataFetcher.fetch_platform                                              *)
(***************************************************************************)
fetch_platform(platform, is_enabled, store, author_id, answer) ==
    IF ~is_enabled THEN Fetched(store, author_id, Raised("Platform not enabled"))
    ELSE CASE platform = "orcid" -> fetch_orcid(store, author_id, answer)
           [] platform = "arxiv" -> fetch_arxiv(store, author_id, answer)
           [] platform = "semantic_scholar" ->
                  fetch_semantic_scholar(store, author_id, answer)
           [] platform = "google_scholar" ->
                  fetch_google_scholar(store, author_id, answer)
           [] OTHER -> Fetched(store, author_id, Raised("Platform not supported yet"))

(***************************************************************************)
(* DataFetcher.fetch_all, one platform of config.platforms at a time.      *)
(***************************************************************************)
ResultEntry(platform, outcome) ==
    [platform |-> platform,
     value |-> IF outcome.status = "ok" THEN outcome.value
               ELSE [error |-> outcome.value]]

\* The call of fetch_platform without the try block around it.
Uncaught(entries, platform, outcome) ==
    IF outcome.status = "ok"
    THEN [results |-> Append(entries, ResultEntry(platform, outcome)), pc |-> "loop"]
    ELSE [results |-> entries, pc |-> "raised"]

\* Lines 228-232: the result, or the caught exception's message, is stored
\* under the platform's key and the loop goes on.
TryFetch(entries, platform, outcome) ==
    [results |-> Append(entries, ResultEntry(platform, outcome)), pc |-> "loop"]

NotRunning == pc \in {"idle", "returned", "raised"}

\* What a call of fetch_platform leaves in the store and the configuration.
Applied(i, r) ==
    /\ dbPapers' = r.store.papers
    /\ dbCitations' = r.store.citations
    /\ syncStatus' = r.store.status
    /\ authorId' = r.author_id
    /\ lastAttempt' = Some([platform |-> Platforms[i], enabled |-> enabled[i],
                            outcome |-> r.outcome])

\* fetch_platform called on its own.  What an earlier fetch_all returned is
\* its caller's by now.
FetchPlatform ==
    /\ NotRunning
    /\ nCalls < MaxCalls
    /\ \E i \in 1..Len(Platforms) :
       \E answer \in AnswersWithin(Platforms[i], enabled[i], authorId, dbCitations) :
          Applied(i, fetch_platform(Platforms[i], enabled[i],
                                    Store(dbPapers, dbCitations, syncStatus),
                                    authorId, answer))
    /\ pc' = "idle"
    /\ idx' = 0
    /\ results' = <<>>
    /\ attempted' = <<>>
    /\ nCalls' = nCalls + 1
    /\ UNCHANGED <<metricsVars, clientVars, enabled>>

FetchAllStart ==
    /\ NotRunning
    /\ nCalls < MaxCalls
    /\ pc' = "loop"
    /\ idx' = 1
    /\ results' = <<>>
    /\ attempted' = <<>>
    /\ nCalls' = nCalls + 1
    /\ UNCHANGED <<metricsVars, clientVars, dbVars, enabled, authorId, syncStatus, lastAttempt>>

\* A turn of the loop on an enabled platform.
FetchAllFetch ==
    /\ pc = "loop"
    /\ idx <= Len(Platforms)
    /\ enabled[idx]
    /\ \E answer \in AnswersWithin(Platforms[idx], enabled[idx], authorId, dbCitations) :
          LET r == fetch_platform(Platforms[idx], enabled[idx],
                                  Store(dbPapers, dbCitations, syncStatus),
                                  authorId, answer)
              caught == TryFetch(results, Platforms[idx], r.outcome)
          IN  /\ Applied(idx, r)
              /\ results' = caught.results
              /\ pc' = caught.pc
    /\ attempted' = Append(attempted, Platforms[idx])
    /\ idx' = idx + 1
    /\ UNCHANGED <<metricsVars, clientVars, enabled, nCalls>>

\* A turn of the loop on a platform that is not enabled.
FetchAllSkip ==
    /\ pc = "loop"
    /\ idx <= Len(Platforms)
    /\ ~enabled[idx]
    /\ idx' = idx + 1
    /\ UNCHANGED <<metricsVars, clientVars, dbVars, enabled, authorId, syncStatus, pc, results,
                   attempted, lastAttempt, nCalls>>

FetchAllReturn ==
    /\ pc = "loop"
    /\ idx > Len(Platforms)
    /\ pc' = "returned"
    /\ UNCHANGED <<metricsVars, clientVars, dbVars, enabled, authorId, syncStatus, idx, results,
                   attempted, lastAttempt, nCalls>>

(***************************************************************************)
(* Spec: the fetcher on an empty store, under every configuration of       *)
(* enabled platforms.                                                      *)
(***************************************************************************)
Init ==
    /\ papers = <<>>
    /\ MetricsIdle
    /\ DbEmpty
    /\ enabled \in [1..Len(Platforms) -> BOOLEAN]
    /\ authorId \in {None, Some("a1")}
    /\ syncStatus = [i \in 1..Len(Platforms) |-> None]
    /\ pc = "idle"
    /\ idx = 0
    /\ results = <<>>
    /\ attempted = <<>>
    /\ lastAttempt = None
    /\ nCalls = 0
    /\ ClientIdle

Next ==
    \/ FetchPlatform
    \/ FetchAllStart
    \/ FetchAllFetch
    \/ FetchAllSkip
    \/ FetchAllReturn

Spec == Init /\ [][Next]_vars

(***************************************************************************)
(* Properties of the fetcher.                                              *)
(***************************************************************************)
Supported == {"orcid", "arxiv", "semantic_scholar", "google_scholar"}

\* C4: after every fetch attempt on an enabled platform of orcid, arxiv,
\* semantic_scholar and google_scholar, returned or raised, the platform's
\* SyncStatus is that attempt's outcome: 'success' when it returned,
\* 'error' with a message when it failed.
C4_StatusIsLastOutcome ==
    (/\ ~IsNone(lastAttempt)
     /\ Val(lastAttempt).platform \in Supported
     /\ Val(lastAttempt).enabled) =>
        LET attempt == Val(lastAttempt)
            status == syncStatus[PlatformIndex(attempt.platform)]
        IN  /\ ~IsNone(status)
            /\ attempt.outcome.status = "ok" => Val(status).status = "success"
            /\ attempt.outcome.status = "raise" =>
                  /\ Val(status).status = "error"
                  /\ ~IsNone(Val(status).message)

IsPrefix(s, t) == Len(s) <= Len(t) /\ SubSeq(t, 1, Len(s)) = s

\* C5: under any sequence of fetch_platform and fetch_all calls the
\* citation-record log only grows: every step of the fetcher leaves the
\* records written so far as they are, in place, and at most appends to
\* them.
C5_LogOnlyGrows == [][IsPrefix(dbCitations, dbCitations')]_vars

\* C5's case: a second fetch has added a record for a paper and platform
\* that had one already.
C5_Witness ==
    /\ Len(dbCitations) >= 2
    /\ dbCitations[1].paper_id = dbCitations[2].paper_id
    /\ dbCitations[1].platform = dbCitations[2].platform
    /\ nCalls >= 2

EnabledInOrder == SelectSeq(Platforms, LAMBDA p : enabled[PlatformIndex(p)])
KeysOf(entries) == [i \in 1..Len(entries) |-> entries[i].platform]
IsEntry(value) ==
    \/ DOMAIN value = {"error"}
    \/ /\ {"platform", "papers", "citations"} \subseteq DOMAIN value
       /\ "error" \notin DOMAIN value

\* C6: fetch_all never fails because a platform's fetch failed: it calls
\* fetch_platform on every enabled platform in configuration order, also
\* after a failing one, and stores under the platform's key the fetch
\* result or an {'error': message} entry; a platform that is not enabled
\* gets no entry.
C6_FetchAllSwallowsFailures ==
    /\ pc # "raised"
    /\ pc \in {"loop", "returned"} =>
          /\ KeysOf(results) = attempted
          /\ IsPrefix(attempted, EnabledInOrder)
          /\ \A i \in 1..Len(results) : IsEntry(results[i].value)
    /\ (pc = "loop" /\ results # <<>>) =>
          results[Len(results)] =
              ResultEntry(Val(lastAttempt).platform, Val(lastAttempt).outcome)
    /\ pc = "returned" => attempted = EnabledInOrder

\* C6's case: fetch_all has returned with an error entry followed by a
\* result entry, and a platform that is not enabled was passed over.
C6_Witness ==
    /\ pc = "returned"
    /\ Len(results) >= 2
    /\ DOMAIN results[1].value = {"error"}
    /\ "error" \notin DOMAIN results[2].value
    /\ \E i \in 1..Len(Platforms) : ~enabled[i]

(***************************************************************************)
(* Properties of identify_low_visibility_papers.                           *)
(***************************************************************************)
\* C11: identify_low_visibility_papers(threshold) never returns a paper
\* younger than 1 year, whatever its citation count, and every paper it
\* returns has a citation count below threshold; a paper's age is the
\* current calendar year minus its publication year.
C11_OnlyOldAndBelowThreshold ==
    (op = "identify_low_visibility_papers" /\ result.status = "ok") =>
        \A i \in 1..Len(result.value) :
            LET entry == result.value[i]
            IN  /\ entry.age = CurrentYear - entry.year
                /\ entry.age >= 1
                /\ entry.citations < arg
                /\ \E j \in 1..Len(papers) :
                      /\ papers[j].year = Some(entry.year)
                      /\ papers[j].citations = entry.citations

\* C11's case: of two uncited papers with a venue, the one of the current
\* year is left out and the one of last year is returned.
C11_Witness ==
    /\ op = "identify_low_visibility_papers"
    /\ result.status = "ok"
    /\ Len(papers) = 2
    /\ papers[1].year = Some(CurrentYear) /\ papers[1].citations < arg
    /\ papers[2].year = Some(CurrentYear - 1) /\ papers[2].citations < arg
    /\ Len(result.value) = 1
    /\ result.value[1].age = 1

(***************************************************************************)
(* identify_low_visibility_papers over noisy upstream data: negative       *)
(* citation counts, a publication year in the future, a venue outside      *)
(* both tiers.                                                             *)
(***************************************************************************)
MaxNegative == 2
MaxNoisy == 1

NoisyYears == Years \cup {Some(CurrentYear + 1)}
NoisyVenues == Venues \cup {Some(<<"a","r","X","i","v">>)}
NoisyPapers ==
    [title : {"t"}, citations : (0 - MaxNegative)..MaxCit, year : NoisyYears,
     doi : Dois, venue : NoisyVenues]

InitNoisy ==
    /\ papers \in SeqsUpTo(NoisyPapers, MaxNoisy)
    /\ MetricsIdle /\ DbEmpty /\ FetchIdle /\ ClientIdle
NextNoisy == IdentifyLowVisibilityPapers
SpecNoisy == InitNoisy /\ [][NextNoisy]_vars

\* C12: every entry returned by identify_low_visibility_papers has
\* potential >= 0, for every venue, publication year, citation count
\* (zero and negative counts included) and threshold.
C12_PotentialNeverNegative ==
    (op = "identify_low_visibility_papers" /\ result.status = "ok") =>
        \A i \in 1..Len(result.value) : result.value[i].potential >= 0

\* C12's case: a paper with a negative citation count, three years old, of
\* a venue outside both tiers is returned, with potential 0.
C12_Witness ==
    /\ op = "identify_low_visibility_papers"
    /\ result.status = "ok"
    /\ Len(result.value) = 1
    /\ result.value[1].citations < 0
    /\ result.value[1].age = 3
    /\ result.value[1].potential = 0

(***************************************************************************)
(* Properties of the numbers get_paper_stats reports.                      *)
(***************************************************************************)
Horizons == {7, 30, 365}

\* The paper's citation records that are at most horizon days old.
RecordsWithin(paper_id, horizon) ==
    {i \in 1..Len(dbCitations) :
        /\ dbCitations[i].paper_id = paper_id
        /\ dbCitations[i].days_ago <= horizon}

MaxCountWithin(paper_id, horizon) ==
    LET counts == {dbCitations[i].citation_count : i \in RecordsWithin(paper_id, horizon)}
    IN  CHOOSE c \in counts : \A d \in counts : d <= c

ReportedGrowth(stats, horizon) ==
    IF horizon = 7 THEN stats.citations_7d
    ELSE IF horizon = 30 THEN stats.citations_30d
    ELSE stats.citations_1y

\* C13: for each horizon H in {7, 30, 365} days that contains at least one
\* record of the paper's citation history, the growth get_paper_stats
\* reports for H equals max(0, C - M), where C is the reported 'citations'
\* and M the maximum citation count among the records at most H days old.
C13_GrowthIsCurrentMinusWindowMax ==
    (op = "get_paper_stats" /\ result.status = "ok") =>
        LET paper_id == FindPaper(dbPapers, arg)
        IN  \A horizon \in Horizons :
               RecordsWithin(paper_id, horizon) # {} =>
                   ReportedGrowth(result.value, horizon)
                       = Max2(0, result.value.citations
                                    - MaxCountWithin(paper_id, horizon))

\* The citation_count of the paper's most recent record, 0 without one
\* (the citations table is kept oldest first).
LatestRecordCount(paper_id) ==
    LET own == SelectSeq(dbCitations, LAMBDA r : r.paper_id = paper_id)
    IN  IF own = <<>> THEN 0 ELSE own[Len(own)].citation_count

\* C14: the 'citations' value reported by get_paper_stats is the paper's
\* latest citation count: the citation_count of its most recent citation
\* record, 0 when it has none, also when a later record has a lower count
\* than an earlier one.
C14_CitationsIsLatestCount ==
    (op = "get_paper_stats" /\ result.status = "ok") =>
        result.value.citations = LatestRecordCount(FindPaper(dbPapers, arg))

(***************************************************************************)
(* SemanticScholarClient.get_author_papers                                 *)
(* (src/src/api/semantic_scholar.py): the paging loop.  What the server    *)
(* answers to a request is the loop's input: a status and, with status     *)
(* 200, a page of at most limit papers.  The papers list grows by each     *)
(* page, so its length is the offset.                                      *)
(***************************************************************************)
MaxPageLimit == 3   \* largest limit a call is made with
MaxRetries == 2     \* 429 answers are counted up to this number
ApiLimit == 1000    \* the offset at which the loop stops asking

PageLimits == 1..MaxPageLimit
AuthorIds == {None, Some(""), Some("a1")}
ErrorStatuses == {404, 500}

\* Line 96 with > in place of >=.
LastPageLate(batch_len, new_offset, page_limit) ==
    batch_len < page_limit \/ new_offset > ApiLimit

\* Line 96: if len(batch) < limit or offset >= 1000: break
LastPage(batch_len, new_offset, page_limit) ==
    batch_len < page_limit \/ new_offset >= ApiLimit

\* Lines 44-50: the call; without an author id it raises ValueError.
GetAuthorPapers ==
    /\ loopPc = "call"
    /\ loopPc' = IF TruthyStr(aid) THEN "request" ELSE "raised"
    /\ offset' = 0
    /\ UNCHANGED <<metricsVars, dbVars, fetchVars, aid, pageLimit, status_code,
                   nPages, retried>>

\* Lines 61-63: a 429 answer; sleep 5 seconds and ask again.
Answer429 ==
    /\ loopPc = "request"
    /\ status_code' = 429
    /\ retried' = Min2(retried + 1, MaxRetries)
    /\ UNCHANGED <<metricsVars, dbVars, fetchVars, aid, pageLimit, offset, loopPc,
                   nPages>>

\* Lines 65-66: any other status than 200 ends the loop.
AnswerError ==
    /\ loopPc = "request"
    /\ \E code \in ErrorStatuses : status_code' = code
    /\ loopPc' = "returned"
    /\ UNCHANGED <<metricsVars, dbVars, fetchVars, aid, pageLimit, offset, nPages,
                   retried>>

\* Lines 68-99: a 200 answer with a page of batch_len papers.
AnswerPage ==
    /\ loopPc = "request"
    /\ status_code' = 200
    /\ \E batch_len \in 0..pageLimit :
          IF batch_len = 0
          THEN /\ loopPc' = "returned"
               /\ UNCHANGED <<offset, nPages>>
          ELSE /\ offset' = offset + batch_len
               /\ nPages' = nPages + 1
               /\ loopPc' = IF LastPage(batch_len, offset + batch_len, pageLimit)
                            THEN "returned" ELSE "request"
    /\ UNCHANGED <<metricsVars, dbVars, fetchVars, aid, pageLimit, retried>>

InitClient ==
    /\ papers = <<>> /\ MetricsIdle /\ DbEmpty /\ FetchIdle
    /\ aid \in AuthorIds
    /\ pageLimit \in PageLimits
    /\ offset = 0
    /\ loopPc = "call"
    /\ status_code = 0
    /\ nPages = 0
    /\ retried = 0

NextClient ==
    \/ GetAuthorPapers
    \/ Answer429
    \/ AnswerError
    \/ AnswerPage

SpecClient == InitClient /\ [][NextClient]_vars

\* The call runs, and the server does not answer 429 forever: while the
\* loop waits for an answer, an answer other than 429 comes in the end.
SpecClientFair ==
    /\ InitClient /\ [][NextClient]_vars
    /\ WF_vars(GetAuthorPapers)
    /\ WF_vars(AnswerError \/ AnswerPage)

(***************************************************************************)
(* Properties of get_author_papers.                                        *)
(***************************************************************************)
\* ceil(ApiLimit / page_limit)
MostPages(page_limit) == (ApiLimit + page_limit - 1) \div page_limit

\* C15: get_author_papers with limit >= 1, called with an author id,
\* eventually returns, provided the server does not answer 429 forever at
\* any offset: a 429 response is retried at the same offset, any other
\* non-200 response or an empty page ends the loop, and at most
\* ceil(1000/limit) requests are answered with a non-empty 200 page.
C15_PagingLoopReturns ==
    /\ [](nPages <= MostPages(pageLimit))
    /\ [][(loopPc = "request" /\ status_code' = 429) =>
              (loopPc' = "request" /\ offset' = offset /\ nPages' = nPages)]_vars
    /\ [][(loopPc = "request" /\ status_code' # 429
              /\ (status_code' # 200 \/ offset' = offset)) =>
              (loopPc' = "returned" /\ nPages' = nPages)]_vars
    /\ TruthyStr(aid) => <>(loopPc = "returned")

\* C15's case: a call with limit 3 that was answered 429 at least twice has
\* returned after ceil(1000/3) = 334 full pages, with 1002 papers.
C15_Witness ==
    /\ loopPc = "returned"
    /\ pageLimit = 3
    /\ retried >= 2
    /\ nPages = MostPages(pageLimit)
    /\ offset >= ApiLimit

====
